---- MODULE Spec2Model ----
(***************************************************************************)
(* Model of the Web Media Scraper (src/main.py): the crawl worker          *)
(* MediaScraperGUI.scrape_media, the GUI handlers that start and stop it,  *)
(* and the pure text functions it relies on (get_media_links' regular      *)
(* expressions and normalisation, the parsing of the configuration).       *)
(*                                                                         *)
(* Text is modelled as sequences of one-character strings, so that strip,  *)
(* split, lower, startswith and the regular expressions are computed as    *)
(* Python computes them.                                                   *)
(***************************************************************************)
EXTENDS Integers, Sequences, FiniteSets, TLC

(***************************************************************************)
(* Bounds of the model.                                                    *)
(***************************************************************************)
\* Threads that start_scraping may create in one run of the application.
MaxCrawls == 2
\* page_count is followed exactly up to this value; larger counts are kept
\* as this value (Python integers do not overflow).
MaxPageCount == 4
\* Fragments concatenated to make a page source for the Link Extractor.
MaxFragments == 2

\* The Pagination Locator is called with at most MaxPatterns patterns, on
\* pages where at most MaxAnchors probes meet something.
MaxPatterns == 2
MaxAnchors == 2

(***************************************************************************)
(* Characters and strings.                                                 *)
(***************************************************************************)
\* The characters of the model, in code point order (sorted() compares
\* strings by code point).
CodeOrder ==
  << " ", "\"", "'", ",", ".", "/", "1", "2", "4", ":", "<", "=", ">",
     "M", "P", "a", "b", "c", "h", "k", "m", "p", "s", "t", "v", "x" >>

Code(c) == CHOOSE i \in 1..Len(CodeOrder) : CodeOrder[i] = c

\* str.lower() on one character.
LowerChar(c) ==
  CASE c = "M" -> "m"
    [] c = "P" -> "p"
    [] OTHER -> c

\* str.lower()
Lower(s) == [i \in 1..Len(s) |-> LowerChar(s[i])]

\* Python's whitespace, as far as the model's characters go.
IsSpace(c) == c = " "

\* str.strip(): leading and trailing whitespace removed.
RECURSIVE LStrip(_)
LStrip(s) == IF s # << >> /\ IsSpace(Head(s)) THEN LStrip(Tail(s)) ELSE s

RECURSIVE RStrip(_)
RStrip(s) ==
  IF s # << >> /\ IsSpace(s[Len(s)]) THEN RStrip(SubSeq(s, 1, Len(s) - 1)) ELSE s

Strip(s) == RStrip(LStrip(s))

\* s[i:] starts with the literal t.
HasAt(s, i, t) ==
  /\ i >= 1
  /\ i + Len(t) - 1 <= Len(s)
  /\ \A k \in 1..Len(t) : s[i + k - 1] = t[k]

\* str.startswith
StartsWith(s, t) == HasAt(s, 1, t)

\* t in s
Contains(s, t) == \E i \in 1..(Len(s) + 1) : HasAt(s, i, t)

\* Index of the first occurrence of the non-empty literal sep in s, 0 if none.
FindFirst(s, sep) ==
  IF \E i \in 1..Len(s) : HasAt(s, i, sep)
  THEN CHOOSE i \in 1..Len(s) :
         HasAt(s, i, sep) /\ \A j \in 1..(i - 1) : ~HasAt(s, j, sep)
  ELSE 0

\* str.split(sep, 1): one element when sep does not occur, else two.
SplitOnce(s, sep) ==
  LET i == FindFirst(s, sep)
  IN  IF i = 0 THEN << s >>
      ELSE << SubSeq(s, 1, i - 1), SubSeq(s, i + Len(sep), Len(s)) >>

\* str.split(sep): every piece, empty ones included.
RECURSIVE SplitAll(_, _)
SplitAll(s, sep) ==
  LET i == FindFirst(s, sep)
  IN  IF i = 0 THEN << s >>
      ELSE << SubSeq(s, 1, i - 1) >> \o SplitAll(SubSeq(s, i + Len(sep), Len(s)), sep)

\* Lexicographic order of Python strings.
RECURSIVE StrLess(_, _)
StrLess(s, t) ==
  IF t = << >> THEN FALSE
  ELSE IF s = << >> THEN TRUE
  ELSE IF Head(s) # Head(t) THEN Code(Head(s)) < Code(Head(t))
  ELSE StrLess(Tail(s), Tail(t))

\* sorted() of a set of strings.
RECURSIVE Sorted(_)
Sorted(S) ==
  IF S = {} THEN << >>
  ELSE LET m == CHOOSE x \in S : \A y \in S \ {x} : StrLess(x, y)
       IN  << m >> \o Sorted(S \ {m})

\* The elements of a sequence.
Range(q) == {q[i] : i \in 1..Len(q)}

(***************************************************************************)
(* Parsing of the configuration (scrape_media, lines 912-914).             *)
(***************************************************************************)
\* [ft.strip().lower() for ft in text.split(',') if ft.strip()]
ParseList(text) ==
  LET pieces == SplitAll(text, << "," >>)
      kept == SelectSeq(pieces, LAMBDA ft : Strip(ft) # << >>)
  IN  [i \in 1..Len(kept) |-> Lower(Strip(kept[i]))]

(***************************************************************************)
(* The Link Extractor's regular expressions (get_media_links, 792-802).    *)
(***************************************************************************)
\* The characters excluded by the class [^\s"'<>].
IsDelim(c) == IsSpace(c) \/ c \in {"\"", "'", "<", ">"}

\* One character of the extension, interpolated unescaped into the pattern
\* and matched with re.IGNORECASE: a dot matches any character.
RegexCharMatch(ch, c) == ch = "." \/ LowerChar(ch) = LowerChar(c)

\* \.{ext} matches at position j.
ExtAt(s, j, ext) ==
  /\ j >= 1
  /\ j + Len(ext) <= Len(s)
  /\ s[j] = "."
  /\ \A k \in 1..Len(ext) : RegexCharMatch(ext[k], s[j + k])

\* Last position of the run of non-delimiters that starts at k (k - 1 when
\* there is none): what a greedy [^\s"'<>]* consumes from k.
RECURSIVE RunEnd(_, _)
RunEnd(s, k) ==
  IF k <= Len(s) /\ ~IsDelim(s[k]) THEN RunEnd(s, k + 1) ELSE k - 1

\* The literal heads of the four patterns, most specific first; https? is
\* two alternatives.
PatternHeads ==
  << { << "h", "t", "t", "p", "s", ":", "/", "/" >>,
       << "h", "t", "t", "p", ":", "/", "/" >> },
     { << "/", "/" >> },
     { << "/" >> },
     { << >> } >>

\* Length of the head of pattern p matched at i (ignoring case), -1 if none.
HeadLen(s, i, p) ==
  LET ok == {h \in PatternHeads[p] : HasAt(Lower(s), i, h)}
  IN  IF ok = {} THEN -1 ELSE Len(CHOOSE h \in ok : TRUE)

\* End of the match of pattern p for extension ext that starts at i, 0 when
\* the pattern does not match there. The first star is greedy, so the last
\* occurrence of the extension that it can reach is taken, and the second
\* star runs to the end of the non-delimiters after it.
MatchEnd(s, i, p, ext) ==
  LET hl == HeadLen(s, i, p)
      from == i + hl
      J == {j \in from..(RunEnd(s, from) + 1) : ExtAt(s, j, ext)}
  IN  IF hl < 0 \/ J = {} THEN 0
      ELSE LET j == CHOOSE x \in J : \A y \in J : y <= x
           IN  RunEnd(s, j + 1 + Len(ext))

\* re.findall(pattern, page_source, re.IGNORECASE): the non-overlapping
\* matches, scanning from position pos.
RECURSIVE FindAll(_, _, _, _)
FindAll(s, pos, p, ext) ==
  IF pos > Len(s) THEN {}
  ELSE LET e == MatchEnd(s, pos, p, ext)
       IN  IF e = 0 THEN FindAll(s, pos + 1, p, ext)
           ELSE {SubSeq(s, pos, e)} \cup FindAll(s, e + 1, p, ext)

\* Lines 792-802: every match of every pattern for every extension.
RegexMatches(page_source, file_extensions) ==
  UNION { FindAll(page_source, 1, p, file_extensions[n]) :
            p \in 1..Len(PatternHeads), n \in 1..Len(file_extensions) }

\* any(f'.{ext}' in value.lower() for ext in file_extensions)
HasExtension(value, file_extensions) ==
  \E n \in 1..Len(file_extensions) :
     Contains(Lower(value), << "." >> \o file_extensions[n])

\* Lines 805-831: the attribute values of the elements the XPath queries
\* select, kept when non-empty and naming an extension. dom_values is what
\* the lookups that did not fail returned.
DomMatches(dom_values, file_extensions) ==
  {v \in dom_values : v # << >> /\ HasExtension(v, file_extensions)}

(***************************************************************************)
(* Cleaning and normalisation (get_media_links, lines 833-846).            *)
(***************************************************************************)
Https == << "h", "t", "t", "p", "s", ":" >>
SchemeSep == << ":", "/", "/" >>
Slash == << "/" >>
TwoSlashes == << "/", "/" >>

\* link.startswith('/') and not link.startswith('//')
IsRootRelative(link) == StartsWith(link, Slash) /\ ~StartsWith(link, TwoSlashes)

\* driver.current_url.split('://', 1) has a second element.
HasSchemeSep(current_url) == Len(SplitOnce(current_url, SchemeSep)) = 2

\* Variant of BaseUrl: the second split is left out, the path stays in.
BaseUrlWithPath(current_url) == SplitOnce(current_url, SchemeSep)[2]

\* driver.current_url.split('://', 1)[1].split('/', 1)[0]
BaseUrl(current_url) ==
  SplitOnce(SplitOnce(current_url, SchemeSep)[2], Slash)[1]

\* Variant of NormalizeLink: a protocol-relative link is given the scheme
\* http.
NormalizeLinkHttp(link, current_url) ==
  IF StartsWith(link, TwoSlashes) THEN << "h", "t", "t", "p", ":" >> \o link
  ELSE IF IsRootRelative(link)
       THEN Https \o TwoSlashes \o BaseUrl(current_url) \o link
       ELSE link

\* Lines 839-843: relative forms made absolute; anything else is kept.
NormalizeLink(link, current_url) ==
  IF StartsWith(link, TwoSlashes) THEN Https \o link
  ELSE IF IsRootRelative(link)
       THEN Https \o TwoSlashes \o BaseUrl(current_url) \o link
       ELSE link

\* Variant of Candidates: the check of line 837 keeps every non-empty value.
CandidatesUnfiltered(media_links, file_extensions) ==
  {c \in {Strip(l) : l \in media_links} : c # << >>}

\* Lines 836-837: the stripped candidates that are non-empty and name an
\* extension.
Candidates(media_links, file_extensions) ==
  {c \in {Strip(l) : l \in media_links} :
     c # << >> /\ HasExtension(c, file_extensions)}

\* Lines 833-846. raised: the IndexError of line 842, when a root-relative
\* candidate meets a current URL without '://'.
CleanLinks(media_links, current_url, file_extensions) ==
  LET cands == Candidates(media_links, file_extensions)
  IN  IF \E c \in cands : IsRootRelative(c) /\ ~HasSchemeSep(current_url)
      THEN [raised |-> TRUE, links |-> {}]
      ELSE [raised |-> FALSE,
            links |-> {NormalizeLink(c, current_url) : c \in cands}]

\* get_media_links (lines 759-846) on one rendered page.
\*   running:   what the samples of is_scraping at lines 764, 774, 786 saw
\*   page:      [source_ok, source, dom, url]: whether driver.page_source
\*              (line 789) returns, the page source, the attribute values the
\*              DOM queries return, driver.current_url
GetMediaLinks(running, page, file_extensions) ==
  IF ~running THEN [raised |-> FALSE, links |-> {}]
  ELSE IF ~page.source_ok THEN [raised |-> TRUE, links |-> {}]
  ELSE CleanLinks(RegexMatches(page.source, file_extensions)
                    \cup DomMatches(page.dom, file_extensions),
                  page.url, file_extensions)

(***************************************************************************)
(* Inputs of the Link Extractor on its own.                                *)
(***************************************************************************)
Fragments ==
  { << "h", "t", "t", "p", "s", ":", "/", "/", "h", "/", "a", ".", "m", "p", "4" >>,
    << "/", "/", "c", "/", "a", ".", "M", "P", "4" >>,
    << "/", "v", "/", "a", ".", "m", "p", "4" >>,
    << "b", ".", "m", "p", "4" >>,
    << "x", ".", "t", "s" >>,
    << "c", ".", "k", "m", "p", "4" >>,
    << "\"" >>,
    << " " >> }

RECURSIVE Concats(_)
Concats(n) ==
  IF n = 0 THEN { << >> }
  ELSE LET shorter == Concats(n - 1)
       IN  shorter \cup {s \o f : s \in shorter, f \in Fragments}

PageSources == Concats(MaxFragments)

\* Attribute values as get_attribute returns them: resolved by the browser
\* (href, src) or raw (data-src, data-url, data-video).
DomValues ==
  { << "h", "t", "t", "p", "s", ":", "/", "/", "h", "/", "a", ".", "m", "p", "4" >>,
    << " ", "/", "v", "/", "b", ".", "m", "p", "4" >>,
    << "c", ".", "M", "P", "4" >>,
    << "h", "t", "t", "p", "s", ":", "/", "/", "h", "/", "k" >> }

CurrentUrls ==
  { << "h", "t", "t", "p", "s", ":", "/", "/", "h", "/", "1" >>,
    << "a", "b", "c" >> }

\* What the user may type as file types.
FiletypeInputs ==
  { << >>,
    << " ", ",", " " >>,
    << "m", "p", "4" >>,
    << " ", "M", "P", "4", ",", "t", "s" >>,
    << ".", "m", "p", "4" >> }

ExtractorPages ==
  [source_ok : BOOLEAN, source : PageSources,
   dom : {{}} \cup {{v} : v \in DomValues}, url : CurrentUrls]

\* A second call on the same rendered content: the browser may stand on
\* another page of the same site, and the list of extensions may come in
\* another order.
OtherUrls ==
  { << "h", "t", "t", "p", "s", ":", "/", "/", "h", "/", "2" >>,
    << "a", "b", "c" >> }

Reverse(s) == [i \in 1..Len(s) |-> s[Len(s) + 1 - i]]

VARIABLES ex_pc, ex_running, ex_page, ex_extensions, ex_result, ex_again

ex_vars == << ex_pc, ex_running, ex_page, ex_extensions, ex_result, ex_again >>

NoResult == [raised |-> FALSE, links |-> {}]

NoRerun ==
  [page |-> [source_ok |-> TRUE, source |-> << >>, dom |-> {}, url |-> << >>],
   extensions |-> << >>, result |-> NoResult]

(***************************************************************************)
(* The Pagination Locator: find_next_page (lines 848-894).                 *)
(***************************************************************************)
\* The selector shapes tried for each pattern (lines 863-869).
NumSelectors == 5

\* What one probe (lines 876-888) meets:
\*   "timeout"  wait.until raises TimeoutException: no such element
\*   "invalid"  the selector is refused (a:contains(...) is not CSS)
\*   "element"  an element is found; href is what get_attribute("href")
\*              returns, << >> standing for None and for ""
Timeout == [kind |-> "timeout", href |-> << >>]
InvalidSelector == [kind |-> "invalid", href |-> << >>]
Element(href) == [kind |-> "element", href |-> href]

NextHrefs ==
  { << "h", "t", "t", "p", "s", ":", "/", "/", "h", "/", "2" >>,
    << "h", "t", "t", "p", "s", ":", "/", "/", "h", "/", "3" >> }

\* What the probe of selector shape j meets on a page that has nothing for
\* it: the fourth shape, a:contains('...'), is not a CSS selector and is
\* refused whatever the page, the others time out.
Miss(j) == IF j = 4 THEN InvalidSelector ELSE Timeout

\* What it can meet otherwise.
ProbeOutcomes(j) ==
  IF j = 4 THEN {}
  ELSE { Element(<< >>) } \cup { Element(h) : h \in NextHrefs }

\* The probes of a page for n patterns, as the page answers them.
Positions(n) == (1..n) \X (1..NumSelectors)

\* Every probe misses.
NoAnchor(n) == [pos \in Positions(n) |-> Miss(pos[2])]

\* The pages on which at most k probes find an element.
RECURSIVE ProbeTables(_, _)
ProbeTables(n, k) ==
  IF k = 0 THEN { NoAnchor(n) }
  ELSE LET fewer == ProbeTables(n, k - 1)
       IN  fewer \cup UNION { { [t EXCEPT ![pos] = o] :
                                  t \in fewer, o \in ProbeOutcomes(pos[2]) } :
                                pos \in Positions(n) }

\* The number of times find_next_page reads is_scraping when no probe hits:
\* line 852, line 860 for each pattern, line 873 for each selector.
NumReads(n) == 1 + n + n * NumSelectors

\* What find_next_page returns: None (found false) or an href.
NoNextPage == [found |-> FALSE, href |-> << >>]

\* Variant of ProbeOrder: the selector shapes in the outer loop, the
\* patterns in the inner one.
ProbeOrderBySelector(n) ==
  [k \in 1..(n * NumSelectors) |-> << ((k - 1) % n) + 1, ((k - 1) \div n) + 1 >>]

\* The order of the probes: for pattern in next_patterns (line 858), for
\* selector in selectors (line 871).
ProbeOrder(n) ==
  [k \in 1..(n * NumSelectors) |->
     << ((k - 1) \div NumSelectors) + 1, ((k - 1) % NumSelectors) + 1 >>]

\* Variant of IsHit: the href is returned without the test of line 887.
IsHitAnyHref(outcome) == outcome.kind = "element"

\* Lines 876-890: the probe found an element and its href is true; an
\* exception of the lookup (line 889) is a miss.
IsHit(outcome) == outcome.kind = "element" /\ outcome.href # << >>

\* The probes from the k-th on. read is the number of reads of is_scraping
\* made so far, stop_at the read that sees it false (0: none does).
RECURSIVE TryProbes(_, _, _, _, _)
TryProbes(probes, order, k, read, stop_at) ==
  IF k > Len(order) THEN NoNextPage
  ELSE LET pos == order[k]
           reads == IF pos[2] = 1 THEN 2 ELSE 1
       IN  IF stop_at \in (read + 1)..(read + reads) THEN NoNextPage
           ELSE IF IsHit(probes[pos])
                THEN [found |-> TRUE, href |-> probes[pos].href]
                ELSE TryProbes(probes, order, k + 1, read + reads, stop_at)

\* find_next_page (lines 848-894) for n patterns. It cannot raise: the
\* handlers of lines 889 and 891 are bare.
FindNextPage(n, probes, stop_at) ==
  IF stop_at = 1 THEN NoNextPage
  ELSE TryProbes(probes, ProbeOrder(n), 1, 1, stop_at)

VARIABLES loc_pc, loc_patterns, loc_probes, loc_stop_at, loc_result

loc_vars == << loc_pc, loc_patterns, loc_probes, loc_stop_at, loc_result >>

(***************************************************************************)
(* The application: the GUI handlers and the crawl worker.                 *)
(***************************************************************************)
Workers == 1..MaxCrawls

\* None, and the empty string: both are false in 'while page_url and ...'
\* and 'if page_url:', the only places that look at them.
None == << >>

StartUrl == << "h", "t", "t", "p", "s", ":", "/", "/", "h", "/", "1" >>
SecondUrl == << "h", "t", "t", "p", "s", ":", "/", "/", "h", "/", "2" >>

\* What the user may type as starting URL and as file types.
UrlInputs == { << >>, << " " >>, << " " >> \o StartUrl }
CrawlFiletypeInputs == { << >>, << " ", ",", " " >>, << "m", "p", "4" >> }

\* The hrefs the site's next-page anchors may carry.
Hrefs == { SecondUrl }

\* What the browser may hold when get_media_links reads it, whatever the URL
\* that was asked for.
SitePages ==
  << [source_ok |-> TRUE,
      source |-> << "\"", "/", "v", "/", "a", ".", "m", "p", "4", "\"" >>,
      dom |-> {}, url |-> StartUrl],
     [source_ok |-> TRUE,
      source |-> << "h", "t", "t", "p", "s", ":", "/", "/", "h", "/", "v", "/",
                    "a", ".", "m", "p", "4", " ", "b", ".", "m", "p", "4" >>,
      dom |-> {}, url |-> SecondUrl],
     [source_ok |-> TRUE, source |-> << "x", ".", "t", "s" >>,
      dom |-> {}, url |-> SecondUrl],
     [source_ok |-> TRUE,
      source |-> << "/", "v", "/", "a", ".", "m", "p", "4" >>,
      dom |-> {}, url |-> << "a", "b", "c" >>] >>

PageIds == 1..Len(SitePages)

\* get_media_links on every page of the site, for every file types field
\* and both values is_scraping may have when it is called: the function is
\* computed once, and the worker's call looks its result up.
MediaLinksOf ==
  [running \in BOOLEAN, p \in PageIds,
   exts \in {ParseList(t) : t \in CrawlFiletypeInputs}
     |-> GetMediaLinks(running, SitePages[p], exts)]

VARIABLES
  url_var,          \* the starting URL field
  filetypes_var,    \* the file types field
  captcha_var,      \* the CAPTCHA mode checkbox
  is_scraping,      \* self.is_scraping
  start_btn,        \* state of the Start button
  stop_btn,         \* state of the Stop button
  status_var,       \* the status line
  threads,          \* number of worker threads created so far
  out_file,         \* the lines of the output file
  pc,               \* where each worker thread is
  file_types,       \* per worker: the parsed file types
  page_url,         \* per worker
  page_count,       \* per worker
  collected_media,  \* per worker
  driver,           \* per worker: "none", "open" or "closed"
  dialog_result,    \* per worker: "none", "pending", "ok" or "cancel"
  fatal,            \* per worker: an exception is propagating to line 1051
  written,          \* history, per worker: the links it passed to the file
  reports,          \* history, per worker: the arguments of scraping_finished
  saw_stop,         \* history, per worker: a loop checkpoint read is_scraping false
  page_error,       \* history, per worker: line 1032 caught an exception
  rediscovered,     \* history, per worker: a page held a link already written
  unsaved,          \* history, per worker: links of batches that did not reach the file
  met_unsaved,      \* history, per worker: a page held one of them again
  loads,            \* history, per worker: the calls of driver.get that returned
  loaded_url,       \* history, per worker: the argument of the last of them
  located,          \* history, per worker: what find_next_page last returned
  page_steps,       \* history, per worker: the steps run on the loaded page
  summaries,        \* history, per worker: the final summaries it logged
  extracted         \* history, per worker: all that get_media_links returned

gui_vars == << url_var, filetypes_var, captcha_var, is_scraping, start_btn,
               stop_btn, status_var, threads, out_file >>
worker_vars == << pc, file_types, page_url, page_count, collected_media, driver,
                  dialog_result, fatal >>
audit_vars == << unsaved, met_unsaved, loads, loaded_url, located,
                page_steps, summaries, extracted >>
history_vars == << written, reports, saw_stop, page_error, rediscovered,
                   audit_vars >>
crawl_vars == << gui_vars, worker_vars, history_vars >>
vars == << crawl_vars, ex_vars, loc_vars >>

\* The Link Extractor's own variables, at rest while the application runs.
ExtractorIdle ==
  /\ ex_pc = "idle"
  /\ ex_running = FALSE
  /\ ex_page = SitePages[1]
  /\ ex_extensions = << >>
  /\ ex_result = NoResult
  /\ ex_again = NoRerun

\* The Pagination Locator's own variables, at rest likewise.
LocatorIdle ==
  /\ loc_pc = "idle"
  /\ loc_patterns = 0
  /\ loc_probes = NoAnchor(0)
  /\ loc_stop_at = 0
  /\ loc_result = NoNextPage

\* __init__ (lines 100-109) and create_widgets (462-485, 630).
Init ==
  /\ url_var \in UrlInputs
  /\ filetypes_var \in CrawlFiletypeInputs
  /\ captcha_var \in BOOLEAN
  /\ is_scraping = FALSE
  /\ start_btn = "normal"
  /\ stop_btn = "disabled"
  /\ status_var = "Ready"
  /\ threads = 0
  /\ out_file = << >>
  /\ pc = [w \in Workers |-> "idle"]
  /\ file_types = [w \in Workers |-> << >>]
  /\ page_url = [w \in Workers |-> None]
  /\ page_count = [w \in Workers |-> 0]
  /\ collected_media = [w \in Workers |-> {}]
  /\ driver = [w \in Workers |-> "none"]
  /\ dialog_result = [w \in Workers |-> "none"]
  /\ fatal = [w \in Workers |-> FALSE]
  /\ written = [w \in Workers |-> << >>]
  /\ reports = [w \in Workers |-> << >>]
  /\ saw_stop = [w \in Workers |-> FALSE]
  /\ page_error = [w \in Workers |-> FALSE]
  /\ rediscovered = [w \in Workers |-> FALSE]
  /\ unsaved = [w \in Workers |-> {}]
  /\ met_unsaved = [w \in Workers |-> FALSE]
  /\ loads = [w \in Workers |-> 0]
  /\ loaded_url = [w \in Workers |-> None]
  /\ located = [w \in Workers |-> None]
  /\ page_steps = [w \in Workers |-> << >>]
  /\ summaries = [w \in Workers |-> << >>]
  /\ extracted = [w \in Workers |-> {}]
  /\ ExtractorIdle
  /\ LocatorIdle

(***************************************************************************)
(* The GUI handlers (main thread).                                         *)
(***************************************************************************)
\* validate_inputs (lines 671-681)
validate_inputs == Strip(url_var) # << >> /\ Strip(filetypes_var) # << >>

\* start_scraping (lines 683-701), run when the enabled Start button is
\* pressed. A rejected request changes nothing (a message box is shown).
start_scraping ==
  /\ start_btn = "normal"
  /\ threads < MaxCrawls
  /\ IF validate_inputs /\ ~is_scraping
     THEN /\ is_scraping' = TRUE
          /\ start_btn' = "disabled"
          /\ stop_btn' = "normal"
          /\ status_var' = "Scraping in progress..."
          /\ threads' = threads + 1
          /\ pc' = [pc EXCEPT ![threads + 1] = "begin"]
     ELSE UNCHANGED << is_scraping, start_btn, stop_btn, status_var, threads, pc >>
  /\ UNCHANGED << url_var, filetypes_var, captcha_var, out_file >>
  /\ UNCHANGED << file_types, page_url, page_count, collected_media, driver,
                  dialog_result, fatal >>
  /\ UNCHANGED << history_vars, ex_vars, loc_vars >>

\* stop_scraping (lines 703-710), run when the enabled Stop button is pressed.
stop_scraping ==
  /\ stop_btn = "normal"
  /\ is_scraping' = FALSE
  /\ status_var' = "Stopping..."
  /\ UNCHANGED << url_var, filetypes_var, captcha_var, start_btn, stop_btn,
                  threads, out_file >>
  /\ UNCHANGED << worker_vars, history_vars, ex_vars, loc_vars >>

\* run_dialog (lines 958-962), scheduled by the worker with root.after: the
\* user answers the CAPTCHA dialog with OK or Cancel.
run_dialog(w) ==
  /\ dialog_result[w] = "pending"
  /\ \E answer \in {"ok", "cancel"} :
       dialog_result' = [dialog_result EXCEPT ![w] = answer]
  /\ UNCHANGED << gui_vars, history_vars, ex_vars, loc_vars >>
  /\ UNCHANGED << pc, file_types, page_url, page_count, collected_media, driver,
                  fatal >>

(***************************************************************************)
(* The crawl worker: scrape_media (lines 908-1053), one action per stretch *)
(* of code between two points where another thread's step can matter.      *)
(***************************************************************************)
\* scraping_finished (lines 712-722), called by worker w.
scraping_finished(w, success) ==
  /\ is_scraping' = FALSE
  /\ start_btn' = "normal"
  /\ stop_btn' = "disabled"
  /\ status_var' = IF success THEN "Scraping completed successfully"
                              ELSE "Scraping stopped or failed"
  /\ reports' = [reports EXCEPT ![w] = Append(@, success)]

\* The locals of scrape_media are not read after line 1045 (nor after the
\* return of line 971, nor once an exception is on its way to line 1051),
\* and the history of a crawl ends with its loop: the model forgets both
\* there, so that a finished crawl leaves only what the next one can see.
Forget(w) ==
  /\ file_types' = [file_types EXCEPT ![w] = << >>]
  /\ page_url' = [page_url EXCEPT ![w] = None]
  /\ page_count' = [page_count EXCEPT ![w] = 0]
  /\ collected_media' = [collected_media EXCEPT ![w] = {}]
  /\ dialog_result' = [dialog_result EXCEPT ![w] = "none"]
  /\ written' = [written EXCEPT ![w] = << >>]
  /\ saw_stop' = [saw_stop EXCEPT ![w] = FALSE]
  /\ page_error' = [page_error EXCEPT ![w] = FALSE]
  /\ rediscovered' = [rediscovered EXCEPT ![w] = FALSE]
  /\ unsaved' = [unsaved EXCEPT ![w] = {}]
  /\ met_unsaved' = [met_unsaved EXCEPT ![w] = FALSE]
  /\ loads' = [loads EXCEPT ![w] = 0]
  /\ loaded_url' = [loaded_url EXCEPT ![w] = None]
  /\ located' = [located EXCEPT ![w] = None]
  /\ page_steps' = [page_steps EXCEPT ![w] = << >>]
  /\ extracted' = [extracted EXCEPT ![w] = {}]

\* page_count += 1 (line 976), followed exactly up to MaxPageCount.
NextPageCount(n) == IF n < MaxPageCount THEN n + 1 ELSE MaxPageCount

\* Variant of Begin: no return after the failed setup (lines 927-929), the
\* worker goes on without a driver.
BeginWithoutDriver(w) ==
  /\ pc[w] = "begin"
  /\ file_types' = [file_types EXCEPT ![w] = ParseList(filetypes_var)]
  /\ \E launched \in BOOLEAN :
       driver' = [driver EXCEPT ![w] = IF launched THEN "open" ELSE "none"]
  /\ collected_media' = [collected_media EXCEPT ![w] = {}]
  /\ page_url' = [page_url EXCEPT ![w] = Strip(url_var)]
  /\ page_count' = [page_count EXCEPT ![w] = 0]
  /\ pc' = [pc EXCEPT ![w] = IF captcha_var THEN "captcha_get" ELSE "loop_test"]
  /\ UNCHANGED << gui_vars, history_vars, dialog_result, fatal >>
  /\ UNCHANGED << ex_vars, loc_vars >>

\* Lines 912-934: the parameters are read, the driver is set up
\* (setup_selenium_driver returns a driver, or None after reporting).
Begin(w) ==
  /\ pc[w] = "begin"
  /\ \E launched \in BOOLEAN :
       IF launched
       THEN /\ file_types' = [file_types EXCEPT ![w] = ParseList(filetypes_var)]
            /\ driver' = [driver EXCEPT ![w] = "open"]
            /\ collected_media' = [collected_media EXCEPT ![w] = {}]
            /\ page_url' = [page_url EXCEPT ![w] = Strip(url_var)]
            /\ page_count' = [page_count EXCEPT ![w] = 0]
            /\ pc' = [pc EXCEPT ![w] = IF captcha_var THEN "captcha_get" ELSE "loop_test"]
            /\ UNCHANGED << is_scraping, start_btn, stop_btn, status_var, reports >>
       ELSE /\ scraping_finished(w, FALSE)
            /\ pc' = [pc EXCEPT ![w] = "done"]
            /\ UNCHANGED << file_types, driver, collected_media, page_url, page_count >>
  /\ UNCHANGED << url_var, filetypes_var, captcha_var, threads, out_file >>
  /\ UNCHANGED << dialog_result, fatal >>
  /\ UNCHANGED << written, saw_stop, page_error, rediscovered, audit_vars >>
  /\ UNCHANGED << ex_vars, loc_vars >>

\* Lines 937-962: in CAPTCHA mode the first page is loaded and the dialog is
\* scheduled. driver.get may raise: nothing catches it before line 1051.
CaptchaGet(w) ==
  /\ pc[w] = "captcha_get"
  /\ \E loaded \in BOOLEAN :
       IF loaded
       THEN /\ dialog_result' = [dialog_result EXCEPT ![w] = "pending"]
            /\ loads' = [loads EXCEPT ![w] = NextPageCount(@)]
            /\ loaded_url' = [loaded_url EXCEPT ![w] = page_url[w]]
            /\ page_steps' = [page_steps EXCEPT ![w] = << >>]
            /\ pc' = [pc EXCEPT ![w] = "captcha_wait"]
            /\ UNCHANGED << fatal, file_types, page_url, page_count,
                            collected_media >>
            /\ UNCHANGED << written, reports, saw_stop, page_error,
                            rediscovered, unsaved, met_unsaved, located,
                  summaries, extracted >>
       ELSE /\ fatal' = [fatal EXCEPT ![w] = TRUE]
            /\ pc' = [pc EXCEPT ![w] = "finally"]
            /\ Forget(w)
            /\ UNCHANGED << reports, summaries >>
  /\ UNCHANGED << gui_vars, driver, ex_vars, loc_vars >>

\* Lines 965-966: the polling loop ends when the dialog has been answered
\* or is_scraping is false.
CaptchaWait(w) ==
  /\ pc[w] = "captcha_wait"
  /\ ~(dialog_result[w] = "pending" /\ is_scraping)
  /\ pc' = [pc EXCEPT ![w] = "captcha_check"]
  /\ UNCHANGED << gui_vars, history_vars, ex_vars, loc_vars >>
  /\ UNCHANGED << file_types, page_url, page_count, collected_media, driver,
                  dialog_result, fatal >>

\* Variant of CaptchaCheck: the answer of the dialog and is_scraping are
\* not looked at, the worker goes on to the loop.
CaptchaCheckIgnored(w) ==
  /\ pc[w] = "captcha_check"
  /\ pc' = [pc EXCEPT ![w] = "loop_test"]
  /\ UNCHANGED << gui_vars, history_vars, ex_vars, loc_vars >>
  /\ UNCHANGED << file_types, page_url, page_count, collected_media, driver,
                  dialog_result, fatal >>

\* Lines 968-973: cancelled or stopped, the worker reports and returns
\* (through the finally clause); otherwise it goes on to the loop.
CaptchaCheck(w) ==
  /\ pc[w] = "captcha_check"
  /\ IF dialog_result[w] # "ok" \/ ~is_scraping
     THEN /\ scraping_finished(w, FALSE)
          /\ pc' = [pc EXCEPT ![w] = "finally"]
          /\ Forget(w)
          /\ UNCHANGED summaries
     ELSE /\ pc' = [pc EXCEPT ![w] = "loop_test"]
          /\ UNCHANGED << is_scraping, start_btn, stop_btn, status_var >>
          /\ UNCHANGED << file_types, page_url, page_count, collected_media,
                          dialog_result, history_vars >>
  /\ UNCHANGED << url_var, filetypes_var, captcha_var, threads, out_file >>
  /\ UNCHANGED << driver, fatal, ex_vars, loc_vars >>

\* Variant of NewLinks: the page's links are not compared with the seen-set.
NewLinksNoDiff(page_media, collected) == page_media

\* new_links = set(page_media) - collected_media (line 997)
NewLinks(page_media, collected) == page_media \ collected

\* Variant of Collected: only the links that reached the file are
\* remembered.
CollectedIfSaved(collected, page_media, lines) == collected \cup Range(lines)

\* Variant of Collected: collected_media is assigned the page's links.
CollectedReplaced(collected, page_media, lines) == page_media

\* collected_media.update(page_media) (line 998), before the batch is
\* written and whatever becomes of it.
Collected(collected, page_media, lines) == collected \cup page_media

\* Variant of save_media_links_to_file: the links are written in descending
\* order.
save_media_links_descending(media_links, k) ==
  LET ordered == Sorted(media_links)
  IN  [i \in 1..k |-> ordered[Len(ordered) + 1 - i]]

\* save_media_links_to_file (lines 896-906): the lines that reach the file
\* when the first k writes succeed (k = all of them: no failure; open()
\* failing: k = 0).
save_media_links_to_file(media_links, k) == SubSeq(Sorted(media_links), 1, k)

\* find_next_page (lines 848-894): None once is_scraping is read false,
\* else the href of the first probe that finds one, or None. It never
\* raises (lines 889-892).
find_next_page(running, found) == IF running THEN found ELSE None

\* Line 975: the loop condition, and line 976.
LoopTest(w) ==
  /\ pc[w] = "loop_test"
  /\ IF page_url[w] # None /\ is_scraping
     THEN /\ page_count' = [page_count EXCEPT ![w] = NextPageCount(@)]
          /\ pc' = [pc EXCEPT ![w] = "navigate"]
          /\ UNCHANGED saw_stop
     ELSE /\ pc' = [pc EXCEPT ![w] = "summary"]
          /\ saw_stop' = [saw_stop EXCEPT ![w] = @ \/ ~is_scraping]
          /\ UNCHANGED page_count
  /\ UNCHANGED << gui_vars, ex_vars, loc_vars >>
  /\ UNCHANGED << file_types, page_url, collected_media, driver,
                  dialog_result, fatal >>
  /\ UNCHANGED << written, reports, page_error, rediscovered, audit_vars >>

\* Variant of LoadedUrl: every navigation goes to the starting URL.
LoadedUrlStart(w) == Strip(url_var)

\* The argument of driver.get at line 988.
LoadedUrl(w) == page_url[w]

\* Variant of ShouldNavigate: the page is loaded in every iteration.
ShouldNavigateAlways(captcha_mode, count) == TRUE

\* if not captcha_mode or page_count > 1 (line 984)
ShouldNavigate(captcha_mode, count) == ~captcha_mode \/ count > 1

\* Lines 980-988: the checks before navigation, and driver.get, which is
\* skipped for the first page in CAPTCHA mode and may raise (line 1032).
Navigate(w) ==
  /\ pc[w] = "navigate"
  /\ IF ~is_scraping
     THEN /\ saw_stop' = [saw_stop EXCEPT ![w] = TRUE]
          /\ pc' = [pc EXCEPT ![w] = "summary"]
          /\ UNCHANGED << page_error, loads, loaded_url, page_steps >>
     ELSE IF ShouldNavigate(captcha_var, page_count[w])
     THEN \E loaded \in BOOLEAN :
            IF loaded
            THEN /\ loads' = [loads EXCEPT ![w] = NextPageCount(@)]
                 /\ loaded_url' = [loaded_url EXCEPT ![w] = LoadedUrl(w)]
                 /\ page_steps' = [page_steps EXCEPT ![w] = << >>]
                 /\ pc' = [pc EXCEPT ![w] = "after_load"]
                 /\ UNCHANGED << saw_stop, page_error >>
            ELSE /\ page_error' = [page_error EXCEPT ![w] = TRUE]
                 /\ pc' = [pc EXCEPT ![w] = "summary"]
                 /\ UNCHANGED << saw_stop, loads, loaded_url, page_steps >>
     ELSE /\ pc' = [pc EXCEPT ![w] = "after_load"]
          /\ UNCHANGED << saw_stop, page_error, loads, loaded_url,
                          page_steps >>
  /\ UNCHANGED << gui_vars, ex_vars, loc_vars >>
  /\ UNCHANGED << file_types, page_url, page_count, collected_media, driver,
                  dialog_result, fatal >>
  /\ UNCHANGED << written, reports, rediscovered, unsaved, met_unsaved, located,
                  summaries, extracted >>

\* Lines 990-992: the check after the page load.
AfterLoad(w) ==
  /\ pc[w] = "after_load"
  /\ IF ~is_scraping
     THEN /\ saw_stop' = [saw_stop EXCEPT ![w] = TRUE]
          /\ pc' = [pc EXCEPT ![w] = "summary"]
     ELSE /\ pc' = [pc EXCEPT ![w] = "extract"]
          /\ UNCHANGED saw_stop
  /\ UNCHANGED << gui_vars, ex_vars, loc_vars >>
  /\ UNCHANGED << file_types, page_url, page_count, collected_media, driver,
                  dialog_result, fatal >>
  /\ UNCHANGED << written, reports, page_error, rediscovered, audit_vars >>

\* Lines 994-1014: extraction, the difference with what was collected, and
\* the append to the output file. An exception of get_media_links is caught
\* at line 1032.
ExtractPage(w) ==
  /\ pc[w] = "extract"
  /\ \E p \in PageIds :
     LET r == MediaLinksOf[is_scraping, p, file_types[w]]
         new_links == NewLinks(r.links, collected_media[w])
     IN  IF r.raised
         THEN /\ page_error' = [page_error EXCEPT ![w] = TRUE]
              /\ pc' = [pc EXCEPT ![w] = "summary"]
              /\ UNCHANGED << collected_media, out_file, written, rediscovered,
                              unsaved, met_unsaved, page_steps, extracted >>
         ELSE /\ rediscovered' = [rediscovered EXCEPT
                                    ![w] = @ \/ (r.links \cap Range(written[w]) # {})]
              /\ met_unsaved' = [met_unsaved EXCEPT
                                   ![w] = @ \/ (r.links \cap unsaved[w] # {})]
              /\ \E k \in 0..Cardinality(new_links) :
                   LET lines == save_media_links_to_file(new_links, k)
                   IN  /\ out_file' = out_file \o lines
                       /\ written' = [written EXCEPT ![w] = @ \o lines]
                       /\ unsaved' = [unsaved EXCEPT
                                        ![w] = @ \cup (new_links \ Range(lines))]
                       /\ collected_media' =
                            [collected_media EXCEPT
                               ![w] = Collected(@, r.links, lines)]
              /\ page_steps' = [page_steps EXCEPT ![w] = Append(@, "extract")]
              /\ extracted' = [extracted EXCEPT ![w] = @ \cup r.links]
              /\ pc' = [pc EXCEPT ![w] = "before_next"]
              /\ UNCHANGED page_error
  /\ UNCHANGED << url_var, filetypes_var, captcha_var, is_scraping, start_btn,
                  stop_btn, status_var, threads >>
  /\ UNCHANGED << file_types, page_url, page_count, driver,
                  dialog_result, fatal >>
  /\ UNCHANGED << reports, saw_stop, loads, loaded_url, located,
                  summaries >>
  /\ UNCHANGED << ex_vars, loc_vars >>

\* Lines 1016-1018: the check after extraction.
BeforeNext(w) ==
  /\ pc[w] = "before_next"
  /\ IF ~is_scraping
     THEN /\ saw_stop' = [saw_stop EXCEPT ![w] = TRUE]
          /\ pc' = [pc EXCEPT ![w] = "summary"]
     ELSE /\ pc' = [pc EXCEPT ![w] = "find_next"]
          /\ UNCHANGED saw_stop
  /\ UNCHANGED << gui_vars, ex_vars, loc_vars >>
  /\ UNCHANGED << file_types, page_url, page_count, collected_media, driver,
                  dialog_result, fatal >>
  /\ UNCHANGED << written, reports, page_error, rediscovered, audit_vars >>

\* Lines 1019-1030: the Pagination Locator, then the delay or the break.
FindNext(w) ==
  /\ pc[w] = "find_next"
  /\ \E found \in Hrefs \cup {None} :
       LET next_url == find_next_page(is_scraping, found)
       IN  /\ page_url' = [page_url EXCEPT ![w] = next_url]
           /\ located' = [located EXCEPT ![w] = next_url]
           /\ page_steps' = [page_steps EXCEPT ![w] = Append(@, "locate")]
           /\ pc' = [pc EXCEPT ![w] = IF next_url # None THEN "loop_test" ELSE "summary"]
  /\ UNCHANGED << gui_vars, ex_vars, loc_vars >>
  /\ UNCHANGED << written, reports, saw_stop, page_error, rediscovered,
                  unsaved, met_unsaved, loads, loaded_url, summaries,
                  extracted >>
  /\ UNCHANGED << file_types, page_count, collected_media, driver,
                  dialog_result, fatal >>

\* The default of the output file field (line 411), read at line 915.
OutputFile == "scraped_links.txt"

\* Lines 1037-1043: what the final summary says of the seen-set, either
\* 'Found N media links total' and 'Saved to: <output file>', or 'No media
\* links found'.
FinalSummary(collected) ==
  IF collected # {}
  THEN [no_links |-> FALSE, total |-> Cardinality(collected),
        saved_to |-> OutputFile]
  ELSE [no_links |-> TRUE, total |-> 0, saved_to |-> ""]

\* Lines 1036-1045: the final summary and scraping_finished(True), reached
\* by every way out of the loop.
Summary(w) ==
  /\ pc[w] = "summary"
  /\ summaries' = [summaries EXCEPT
                     ![w] = Append(@, FinalSummary(collected_media[w]))]
  /\ scraping_finished(w, TRUE)
  /\ pc' = [pc EXCEPT ![w] = "finally"]
  /\ Forget(w)
  /\ UNCHANGED << url_var, filetypes_var, captcha_var, threads, out_file >>
  /\ UNCHANGED << driver, fatal, ex_vars, loc_vars >>

\* Variant of Finally: driver.quit() at the end of the try body instead of in
\* a finally clause, so that a propagating exception skips it.
FinallyQuitSkippedByException(w) ==
  /\ pc[w] = "finally"
  /\ driver' = [driver EXCEPT ![w] = IF fatal[w] THEN @ ELSE "closed"]
  /\ IF fatal[w]
     THEN scraping_finished(w, FALSE)
     ELSE UNCHANGED << is_scraping, start_btn, stop_btn, status_var, reports >>
  /\ fatal' = [fatal EXCEPT ![w] = FALSE]
  /\ pc' = [pc EXCEPT ![w] = "done"]
  /\ UNCHANGED << url_var, filetypes_var, captcha_var, threads, out_file >>
  /\ UNCHANGED << file_types, page_url, page_count, collected_media,
                  dialog_result >>
  /\ UNCHANGED << written, saw_stop, page_error, rediscovered, audit_vars >>
  /\ UNCHANGED << ex_vars, loc_vars >>

\* Variant of Finally: scraping_finished(False) is called in the finally
\* clause itself, whether or not an exception is propagating.
FinallyReportsAgain(w) ==
  /\ pc[w] = "finally"
  /\ driver' = [driver EXCEPT ![w] = "closed"]
  /\ scraping_finished(w, FALSE)
  /\ fatal' = [fatal EXCEPT ![w] = FALSE]
  /\ pc' = [pc EXCEPT ![w] = "done"]
  /\ UNCHANGED << url_var, filetypes_var, captcha_var, threads, out_file >>
  /\ UNCHANGED << file_types, page_url, page_count, collected_media,
                  dialog_result >>
  /\ UNCHANGED << written, saw_stop, page_error, rediscovered, audit_vars >>
  /\ UNCHANGED << ex_vars, loc_vars >>

\* Lines 1047-1053: the finally clause closes the browser; an exception that
\* was propagating is then reported by the outer handler.
Finally(w) ==
  /\ pc[w] = "finally"
  /\ driver' = [driver EXCEPT ![w] = "closed"]
  /\ IF fatal[w]
     THEN scraping_finished(w, FALSE)
     ELSE UNCHANGED << is_scraping, start_btn, stop_btn, status_var, reports >>
  /\ fatal' = [fatal EXCEPT ![w] = FALSE]
  /\ pc' = [pc EXCEPT ![w] = "done"]
  /\ UNCHANGED << url_var, filetypes_var, captcha_var, threads, out_file >>
  /\ UNCHANGED << file_types, page_url, page_count, collected_media,
                  dialog_result >>
  /\ UNCHANGED << written, saw_stop, page_error, rediscovered, audit_vars >>
  /\ UNCHANGED << ex_vars, loc_vars >>

Worker(w) ==
  \/ Begin(w)
  \/ CaptchaGet(w)
  \/ CaptchaWait(w)
  \/ CaptchaCheck(w)
  \/ LoopTest(w)
  \/ Navigate(w)
  \/ AfterLoad(w)
  \/ ExtractPage(w)
  \/ BeforeNext(w)
  \/ FindNext(w)
  \/ Summary(w)
  \/ Finally(w)

Next ==
  \/ start_scraping
  \/ stop_scraping
  \/ \E w \in Workers : run_dialog(w)
  \/ \E w \in Workers : Worker(w)

Spec == Init /\ [][Next]_vars

\* A started thread keeps running: Python schedules every live thread.
FairSpec == Spec /\ \A w \in Workers : WF_vars(Worker(w))

(***************************************************************************)
(* The Link Extractor on its own: one call on inputs drawn from the sets   *)
(* above, the application at rest.                                         *)
(***************************************************************************)
CrawlAtRest ==
  /\ url_var = << >>
  /\ filetypes_var = << >>
  /\ captcha_var = FALSE
  /\ is_scraping = FALSE
  /\ start_btn = "normal"
  /\ stop_btn = "disabled"
  /\ status_var = "Ready"
  /\ threads = 0
  /\ out_file = << >>
  /\ pc = [w \in Workers |-> "idle"]
  /\ file_types = [w \in Workers |-> << >>]
  /\ page_url = [w \in Workers |-> None]
  /\ page_count = [w \in Workers |-> 0]
  /\ collected_media = [w \in Workers |-> {}]
  /\ driver = [w \in Workers |-> "none"]
  /\ dialog_result = [w \in Workers |-> "none"]
  /\ fatal = [w \in Workers |-> FALSE]
  /\ written = [w \in Workers |-> << >>]
  /\ reports = [w \in Workers |-> << >>]
  /\ saw_stop = [w \in Workers |-> FALSE]
  /\ page_error = [w \in Workers |-> FALSE]
  /\ rediscovered = [w \in Workers |-> FALSE]
  /\ unsaved = [w \in Workers |-> {}]
  /\ met_unsaved = [w \in Workers |-> FALSE]
  /\ loads = [w \in Workers |-> 0]
  /\ loaded_url = [w \in Workers |-> None]
  /\ located = [w \in Workers |-> None]
  /\ page_steps = [w \in Workers |-> << >>]
  /\ summaries = [w \in Workers |-> << >>]
  /\ extracted = [w \in Workers |-> {}]

ExtractInit ==
  /\ ex_pc = "call"
  /\ ex_running \in BOOLEAN
  /\ ex_page \in ExtractorPages
  /\ ex_extensions \in {ParseList(t) : t \in FiletypeInputs}
  /\ ex_result = NoResult
  /\ ex_again = NoRerun
  /\ CrawlAtRest
  /\ LocatorIdle

\* One call of get_media_links.
Extract ==
  /\ ex_pc = "call"
  /\ ex_pc' = "returned"
  /\ ex_result' = GetMediaLinks(ex_running, ex_page, ex_extensions)
  /\ UNCHANGED << ex_running, ex_page, ex_extensions, ex_again, crawl_vars,
                  loc_vars >>

\* The origin of a URL: scheme, '://' and host; a URL without '://' has
\* none but itself.
Origin(url) ==
  IF HasSchemeSep(url)
  THEN LET parts == SplitOnce(url, SchemeSep)
       IN  parts[1] \o SchemeSep \o SplitOnce(parts[2], Slash)[1]
  ELSE url

\* A second call of get_media_links: same content, a current URL of the
\* same origin, the same extensions in reverse order.
ExtractAgain ==
  /\ ex_pc = "returned"
  /\ ex_pc' = "again"
  /\ \E u \in {v \in OtherUrls : Origin(v) = Origin(ex_page.url)} :
       LET page == [ex_page EXCEPT !.url = u]
           file_extensions == Reverse(ex_extensions)
       IN  ex_again' = [page |-> page, extensions |-> file_extensions,
                        result |-> GetMediaLinks(ex_running, page,
                                                 file_extensions)]
  /\ UNCHANGED << ex_running, ex_page, ex_extensions, ex_result, crawl_vars,
                  loc_vars >>

ExtractNext == Extract \/ ExtractAgain

ExtractSpec == ExtractInit /\ [][ExtractNext]_vars

(***************************************************************************)
(* The Pagination Locator on its own: one call of find_next_page for 0 to  *)
(* MaxPatterns patterns, on a page where at most MaxAnchors probes find    *)
(* something, is_scraping turning false at any of its reads or at none.    *)
(***************************************************************************)
LocateInit ==
  /\ loc_pc = "call"
  /\ loc_patterns \in 0..MaxPatterns
  /\ loc_probes \in ProbeTables(loc_patterns, MaxAnchors)
  /\ loc_stop_at \in 0..NumReads(loc_patterns)
  /\ loc_result = NoNextPage
  /\ CrawlAtRest
  /\ ExtractorIdle

\* One call of find_next_page.
Locate ==
  /\ loc_pc = "call"
  /\ loc_pc' = "returned"
  /\ loc_result' = FindNextPage(loc_patterns, loc_probes, loc_stop_at)
  /\ UNCHANGED << loc_patterns, loc_probes, loc_stop_at, crawl_vars, ex_vars >>

LocateNext == Locate

LocateSpec == LocateInit /\ [][LocateNext]_vars

(***************************************************************************)
(* Properties.                                                             *)
(***************************************************************************)
Last(q) == q[Len(q)]

\* The worker threads that have started and not ended.
Active == {w \in Workers : pc[w] \notin {"idle", "done"}}

\* C1: within one crawl no link is passed to the output file twice, also
\* when a later page holds a link that an earlier page already gave.
C1_NoLinkWrittenTwice ==
  \A w \in Workers :
    \A i, j \in 1..Len(written[w]) : i # j => written[w][i] # written[w][j]

\* C1 witness: a crawl has written links and then met one of them again on
\* a later page.
C1_Witness ==
  \E w \in Workers :
    /\ pc[w] = "before_next"
    /\ rediscovered[w]
    /\ written[w] # << >>

\* C2: a worker that has read is_scraping false at a checkpoint of the loop
\* reports failure (never success) and loads no further page.
C2_StopEndsInFailure ==
  [][\A w \in Workers :
       saw_stop[w] =>
         /\ pc'[w] \in {"summary", "finally"}
         /\ reports'[w] # reports[w] => Last(reports'[w]) = FALSE]_vars

\* C3: after an exception of navigation or extraction the loop visits no
\* further page and the crawl reports failure.
C3_PageErrorEndsInFailure ==
  [][\A w \in Workers :
       page_error[w] =>
         /\ pc'[w] \in {"summary", "finally"}
         /\ reports'[w] # reports[w] => Last(reports'[w]) = FALSE]_vars

\* C4: a worker that launched the browser has closed it when it ends, and
\* once it has reported the end of the crawl with the browser still open it
\* stands at the finally clause that closes it.
C4_RendererReleased ==
  \A w \in Workers :
    /\ pc[w] = "done" => driver[w] # "open"
    /\ (driver[w] = "open" /\ (reports[w] # << >> \/ fatal[w])) => pc[w] = "finally"

\* C4 witness: a crawl that ended in failure after launching the browser
\* (cancelled at the CAPTCHA dialog, or a fatal error) has closed it.
C4_Witness ==
  \E w \in Workers :
    pc[w] = "done" /\ driver[w] = "closed" /\ reports[w] = << FALSE >>

\* C5: at most one worker thread is alive at any time.
C5_OneActiveWorker == Cardinality(Active) <= 1

\* C6: every crawl loop that was entered is left.
C6_LoopTerminates ==
  \A w \in Workers : (pc[w] = "loop_test") ~> (pc[w] \in {"summary", "finally", "done"})

\* C7: with a ceiling of 3 pages the loop starts no fourth page, however
\* many next-page links the site offers.
C7_StopsAtThreePages == \A w \in Workers : page_count[w] <= 3

\* C8: no worker is started when the starting URL is missing or no file
\* type is left after parsing the file types field.
C8_InvalidStartRejected ==
  (Strip(url_var) = << >> \/ ParseList(filetypes_var) = << >>)
    => (threads = 0 /\ \A w \in Workers : pc[w] = "idle")

\* http:// or https:// at the head of a link, whatever the case.
IsAbsoluteUrl(link) ==
  \/ StartsWith(Lower(link), Https \o TwoSlashes)
  \/ StartsWith(Lower(link), << "h", "t", "t", "p", ":", "/", "/" >>)

\* C9: every link the Link Extractor returns is an absolute URL.
C9_LinksAbsolute == \A link \in ex_result.links : IsAbsoluteUrl(link)

\* text holds token at some position, the case of letters ignored.
ContainsIgnoringCase(text, token) ==
  \E i \in 1..(Len(text) - Len(token) + 1) :
    \A k \in 1..Len(token) : LowerChar(text[i + k - 1]) = LowerChar(token[k])

\* C10: every link the Link Extractor returns holds '.e' for a requested
\* extension e, the case ignored; with no extension it returns nothing.
C10_LinksNameAnExtension ==
  /\ \A link \in ex_result.links :
       \E n \in 1..Len(ex_extensions) :
         ContainsIgnoringCase(link, << "." >> \o ex_extensions[n])
  /\ ex_extensions = << >> => ex_result.links = {}

\* C10 witness: a call with two extensions has returned links.
C10_Witness ==
  /\ ex_pc = "returned"
  /\ Len(ex_extensions) = 2
  /\ ex_result.links # {}

\* The probes of the page that find an element with a non-empty href.
Hits ==
  {pos \in Positions(loc_patterns) :
     loc_probes[pos].kind = "element" /\ loc_probes[pos].href # << >>}

\* Pattern order, then selector-shape order.
Before(p, q) == p[1] < q[1] \/ (p[1] = q[1] /\ p[2] < q[2])

FirstHit == CHOOSE p \in Hits : \A q \in Hits : q = p \/ Before(p, q)

\* C11: the Pagination Locator returns the href of the first probe, in
\* pattern order and then selector-shape order, that finds an element with
\* a non-empty href: whatever it returns is that href, and it does return
\* it when is_scraping stays true.
C11_FirstMatchWins ==
  loc_pc = "returned" =>
    /\ loc_result.found => (Hits # {} /\ loc_result.href = loc_probes[FirstHit].href)
    /\ (loc_stop_at = 0 /\ Hits # {}) => loc_result.found

\* C11 witness: two patterns, the only anchor of the page answers the
\* rel= probe of the second one, and its href is returned.
C11_Witness ==
  /\ loc_pc = "returned"
  /\ loc_patterns = 2
  /\ Hits = { << 2, 2 >> }
  /\ loc_result.found
  /\ loc_result.href = loc_probes[<< 2, 2 >>].href

\* C12: the Pagination Locator returns a non-empty URL or None, None when
\* every probe misses and when is_scraping is false at its first read.
C12_UrlOrNone ==
  loc_pc = "returned" =>
    /\ loc_result.found => loc_result.href # << >>
    /\ ~loc_result.found => loc_result = NoNextPage
    /\ Hits = {} => ~loc_result.found
    /\ loc_stop_at = 1 => ~loc_result.found

\* C12 witness: is_scraping stays true, one probe is refused, another finds
\* an element without href, the others time out, and None is returned.
C12_Witness ==
  /\ loc_pc = "returned"
  /\ loc_stop_at = 0
  /\ loc_patterns = 2
  /\ \E pos \in Positions(loc_patterns) : loc_probes[pos] = Element(<< >>)
  /\ \E pos \in Positions(loc_patterns) : loc_probes[pos] = InvalidSelector
  /\ \E pos \in Positions(loc_patterns) : loc_probes[pos] = Timeout
  /\ loc_result = NoNextPage

\* C13: no exception escapes the Link Extractor: whichever lookup fails,
\* get_media_links returns a collection.
C13_NoExceptionEscapes == ex_pc = "returned" => ~ex_result.raised

\* C14: a batch that does not reach the output file (whole or in part) does
\* not end the crawl: the worker goes on to the check before the Pagination
\* Locator with no page error; and no link of such a batch is written later
\* in the same crawl.
C14_FailedBatchNotRetried ==
  [][\A w \in Workers :
       /\ (unsaved'[w] # unsaved[w] /\ unsaved'[w] # {}) =>
            (pc'[w] = "before_next" /\ ~page_error'[w] /\ ~fatal'[w])
       /\ Range(written'[w]) \cap unsaved'[w] = {}]_vars

\* C14 witness: later in the crawl a page held a link of a batch that was
\* not written, and the crawl went on to a further page after that.
C14_Witness ==
  \E w \in Workers :
    /\ pc[w] = "after_load"
    /\ met_unsaved[w]
    /\ unsaved[w] # {}
    /\ page_count[w] >= 3

\* C15: a worker whose browser could not be launched reports failure (the
\* status line says so) and ends at once: it never enters the CAPTCHA step
\* or the loop, loads no page, collects and writes nothing.
C15_SetupFailureIsFatal ==
  [][\A w \in Workers :
       /\ driver'[w] = "none" =>
            /\ pc'[w] \in {"idle", "begin", "done"}
            /\ page_count'[w] = 0 /\ loads'[w] = 0
            /\ collected_media'[w] = {} /\ written'[w] = << >>
       /\ (pc[w] = "begin" /\ pc'[w] = "done") =>
            /\ driver'[w] = "none"
            /\ reports'[w] = << FALSE >>
            /\ status_var' = "Scraping stopped or failed"
            /\ out_file' = out_file]_vars

\* C15 witness: a worker has ended without a browser, having reported
\* failure.
C15_Witness ==
  \E w \in Workers :
    /\ pc[w] = "done"
    /\ driver[w] = "none"
    /\ reports[w] = << FALSE >>
    /\ status_var = "Scraping stopped or failed"

\* The steps of the manual-intervention gate (lines 937-971).
AtGate(stage) == stage \in {"captcha_get", "captcha_wait", "captcha_check"}

\* C16: in CAPTCHA mode, from the load of the first page until the dialog
\* is confirmed the worker extracts, writes and locates nothing and its
\* page count stays 0; it enters the loop only after an OK with is_scraping
\* still true; after a cancellation or a stop it does not enter the loop
\* and leaves the gate reporting failure.
C16_GateBlocksUntilConfirmed ==
  [][\A w \in Workers :
       /\ AtGate(pc'[w]) =>
            /\ page_count'[w] = 0
            /\ collected_media'[w] = {} /\ written'[w] = << >>
            /\ located'[w] = None
       /\ (AtGate(pc[w]) /\ pc'[w] = "loop_test") =>
            (dialog_result[w] = "ok" /\ is_scraping /\ page_count'[w] = 0)
       /\ (pc[w] = "captcha_check" /\ (dialog_result[w] # "ok" \/ ~is_scraping)) =>
            pc'[w] \in {"captcha_check", "finally"}
       /\ (pc[w] \in {"captcha_wait", "captcha_check"} /\ pc'[w] = "finally") =>
            (reports'[w] = << FALSE >> /\ out_file' = out_file)]_vars

\* C16 witness: a crawl in CAPTCHA mode has left the gate for the finally
\* clause with a report of failure (the dialog was cancelled, or Stop was
\* pressed during the wait).
C16_Witness ==
  \E w \in Workers :
    /\ captcha_var
    /\ pc[w] = "finally"
    /\ driver[w] = "open"
    /\ reports[w] = << FALSE >>

\* C17: when the check after the load of page N (N = loads) reads
\* is_scraping false, the extraction of page N does not run, nothing is
\* added to what was collected or written, and the page count with which
\* the loop ends is N - 1.
C17_StopAfterNavigation ==
  [][\A w \in Workers :
       (pc[w] = "after_load" /\ pc'[w] = "summary") =>
         /\ collected_media'[w] = collected_media[w]
         /\ written'[w] = written[w] /\ out_file' = out_file
         /\ page_count'[w] = loads'[w] - 1]_vars

\* The host of a URL: what stands between the first '://' and the next '/'
\* (or the end).
HostOf(url) ==
  LET starts == {i \in 1..Len(url) : HasAt(url, i, << ":", "/", "/" >>)}
      first == CHOOSE i \in starts : \A j \in starts : i <= j
      ends == {j \in (first + 3)..Len(url) : url[j] = "/"} \cup {Len(url) + 1}
      last == CHOOSE j \in ends : \A k \in ends : j <= k
  IN  SubSeq(url, first + 3, last - 1)

\* What the specification says the normalisation of a value is.
ExpectedLink(value, url) ==
  IF Len(value) >= 2 /\ value[1] = "/" /\ value[2] = "/"
  THEN << "h", "t", "t", "p", "s", ":" >> \o value
  ELSE IF Len(value) >= 1 /\ value[1] = "/"
       THEN << "h", "t", "t", "p", "s", ":", "/", "/" >> \o HostOf(url) \o value
       ELSE value

\* The stripped values that name an extension, before normalisation.
ExtractedValues ==
  Candidates(RegexMatches(ex_page.source, ex_extensions)
               \cup DomMatches(ex_page.dom, ex_extensions),
             ex_extensions)

\* C18: a call of the Link Extractor that returns (the current URL has a
\* host whenever a root-relative value is met) returns exactly the values
\* it kept, '//...' prefixed with 'https:', '/...' prefixed with 'https://'
\* and the host of the current page, every other value unchanged.
C18_Normalisation ==
  (ex_pc = "returned" /\ ex_running /\ ex_page.source_ok /\ ~ex_result.raised) =>
    ex_result.links = {ExpectedLink(v, ex_page.url) : v \in ExtractedValues}

\* C18 witness: on a page of https://h/1 the value /v/a.mp4 was returned
\* as https://h/v/a.mp4.
C18_Witness ==
  /\ ex_pc = "returned"
  /\ ex_page.url = << "h", "t", "t", "p", "s", ":", "/", "/", "h", "/", "1" >>
  /\ << "/", "v", "/", "a", ".", "m", "p", "4" >> \in ExtractedValues
  /\ << "h", "t", "t", "p", "s", ":", "/", "/", "h", "/", "v", "/", "a", ".", "m", "p", "4" >>
       \in ex_result.links


\* The lines a step appended to the output file.
Appended == SubSeq(out_file', Len(out_file) + 1, Len(out_file'))

\* C19: every step that changes the output file keeps what the file held as
\* a prefix and appends, one per line and in ascending lexicographic order,
\* links that the writing worker had not collected before this flush.
C19_AppendOnlySortedFlush ==
  [][out_file' # out_file =>
       /\ Len(out_file') > Len(out_file)
       /\ SubSeq(out_file', 1, Len(out_file)) = out_file
       /\ \A i, j \in 1..Len(Appended) :
            i < j => StrLess(Appended[i], Appended[j])
       /\ \E w \in Workers :
            /\ pc[w] = "extract"
            /\ Range(Appended) \subseteq
                 (collected_media'[w] \ collected_media[w])]_vars

\* C19 witness: one flush of two links, b.mp4 before https://h/v/a.mp4, has
\* landed after the lines an earlier crawl left in the file.
C19_Witness ==
  \E w \in Workers :
    /\ pc[w] = "before_next"
    /\ written[w] = << << "b", ".", "m", "p", "4" >>,
                       << "h", "t", "t", "p", "s", ":", "/", "/", "h", "/",
                          "v", "/", "a", ".", "m", "p", "4" >> >>
    /\ Len(out_file) > 2
    /\ SubSeq(out_file, Len(out_file) - 1, Len(out_file)) = written[w]


\* C20: the first URL a worker navigates to (line 939 in CAPTCHA mode, line
\* 988 otherwise) is the starting URL; every later navigation happens when
\* the page loaded before it has been through extraction and saving (lines
\* 994-1014) and then through find_next_page (line 1019), in that order and
\* once each, and goes to the URL that call returned.
C20_SequentialVisits ==
  [][\A w \in Workers :
       LET at939 == pc[w] = "captcha_get" /\ pc'[w] = "captcha_wait"
           at988 == /\ pc[w] = "navigate" /\ pc'[w] = "after_load"
                    /\ (~captcha_var \/ page_count[w] > 1)
       IN  /\ (at939 \/ (at988 /\ loads[w] = 0)) =>
                loaded_url'[w] = Strip(url_var)
           /\ (at988 /\ loads[w] > 0) =>
                /\ page_steps[w] = << "extract", "locate" >>
                /\ located[w] # None
                /\ loaded_url'[w] = located[w]]_vars

\* C20 witness: a worker has just navigated to its second page, the URL
\* find_next_page returned for the first.
C20_Witness ==
  \E w \in Workers :
    /\ pc[w] = "after_load"
    /\ loads[w] = 2
    /\ page_steps[w] = << >>
    /\ located[w] = SecondUrl
    /\ loaded_url[w] = SecondUrl


\* C21: every step in which a crawl reports its terminal status also emits
\* a final summary: the size of the seen-set and the output path, or 'no
\* links found' exactly when the seen-set is empty.
C21_TerminalSummary ==
  [][\A w \in Workers :
       reports'[w] # reports[w] =>
         /\ Len(summaries'[w]) = Len(summaries[w]) + 1
         /\ LET said == Last(summaries'[w])
            IN  /\ said.no_links <=> collected_media[w] = {}
                /\ ~said.no_links =>
                     /\ said.total = Cardinality(collected_media[w])
                     /\ said.saved_to = OutputFile]_vars


\* C22: with is_scraping true, a second call of the Link Extractor on the
\* same page source and DOM values, a current URL of the same origin and
\* the same set of extensions gives what the first call gave.
C22_Deterministic ==
  (ex_pc = "again" /\ ex_running) =>
    /\ ex_again.result.raised = ex_result.raised
    /\ ex_again.result.links = ex_result.links

\* C22 witness: two calls on pages https://h/1 and https://h/2 with the
\* extensions in opposite orders, both returning https://h/v/a.mp4 made
\* from a root-relative link.
C22_Witness ==
  /\ ex_pc = "again"
  /\ ex_running
  /\ ex_again.page.url # ex_page.url
  /\ ex_again.extensions # ex_extensions
  /\ << "h", "t", "t", "p", "s", ":", "/", "/", "h", "/", "v", "/", "a", ".", "m", "p", "4" >>
       \in ex_result.links
  /\ ex_result.links = ex_again.result.links


\* C23: with the CAPTCHA gate on, the first iteration of the loop goes from
\* its navigation step to the page without loading anything (the one load
\* so far is the gate's, of the starting URL), and every later iteration
\* loads page_url; with the gate off every iteration loads it. Either way
\* the number of loads then equals the number of iterations.
C23_GateSkipsFirstReload ==
  [][\A w \in Workers :
       (pc[w] = "navigate" /\ pc'[w] = "after_load") =>
         /\ IF captcha_var /\ page_count[w] = 1
            THEN /\ loads[w] = 1
                 /\ loads'[w] = loads[w]
                 /\ loaded_url[w] = Strip(url_var)
                 /\ loaded_url'[w] = loaded_url[w]
            ELSE /\ loads'[w] = NextPageCount(loads[w])
                 /\ loaded_url'[w] = page_url[w]
         /\ loads'[w] = page_count[w]]_vars

\* C23 witness: a crawl with the gate on is on the page of its second
\* iteration after two loads in all, the gate's and the second
\* iteration's.
C23_Witness ==
  \E w \in Workers :
    /\ captcha_var
    /\ pc[w] = "after_load"
    /\ page_count[w] = 2
    /\ loads[w] = 2
    /\ loaded_url[w] = SecondUrl


\* C24: a crawl calls scraping_finished at most once, and exactly once by
\* the time its thread has ended, whichever way it ended; the call leaves
\* is_scraping false, the Start button enabled, the Stop button disabled
\* and the status line saying what was reported.
C24_OneTerminalReport ==
  [][\A w \in Workers :
       /\ Len(reports'[w]) <= 1
       /\ pc'[w] = "done" => Len(reports'[w]) = 1
       /\ reports'[w] # reports[w] =>
            /\ reports[w] = << >>
            /\ ~is_scraping'
            /\ start_btn' = "normal"
            /\ stop_btn' = "disabled"
            /\ status_var' = IF Last(reports'[w])
                             THEN "Scraping completed successfully"
                             ELSE "Scraping stopped or failed"]_vars

\* C24 witness: two crawls have ended, one through the loop and its
\* summary, one through the handler of a fatal exception or a failed
\* setup or gate; each reported once and the application is idle.
C24_Witness ==
  /\ \A w \in Workers : pc[w] = "done"
  /\ reports[1] = << TRUE >>
  /\ reports[2] = << FALSE >>
  /\ ~is_scraping
  /\ start_btn = "normal"


\* C25: after every step that leaves a worker's crawl going, the links it
\* has written to the output file are among those it has collected,
\* nothing has left collected_media, and collected_media holds exactly
\* what get_media_links has returned for the pages processed so far.
C25_SeenSetInvariant ==
  [][\A w \in Workers :
       pc'[w] \notin {"idle", "finally", "done"} =>
         /\ Range(written'[w]) \subseteq collected_media'[w]
         /\ collected_media[w] \subseteq collected_media'[w]
         /\ collected_media'[w] = extracted'[w]]_vars

\* C25 witness: a crawl on its second page has collected two links and has
\* written only one of them: a write failed, or a page gave a link twice.
C25_Witness ==
  \E w \in Workers :
    /\ pc[w] = "before_next"
    /\ page_count[w] = 2
    /\ Cardinality(collected_media[w]) = 2
    /\ Len(written[w]) = 1
    /\ extracted[w] = collected_media[w]

====
